---- MODULE Spec2Model ----
(***************************************************************************)
(* Kanthera backend V1.5 (src/server.js, lines 164 onwards): the document  *)
(* upload and extraction route POST /api/workers/:id/docs, together with   *)
(* the flat-file stores it shares the process with.                        *)
(*                                                                         *)
(* Conventions.                                                            *)
(*  - A text is a sequence of tokens.  A file name is a sequence of words  *)
(*    (strings); the word " " is a run of whitespace.  An LLM reply is a   *)
(*    sequence of lexical JSON tokens, records tagged by k.                *)
(*  - A JSON value is a record tagged by t.  Numbers are kept in tenths:   *)
(*    JNum(7) is 0.7, JNum(10) is 1.0, JNum(-2) is -0.2.                   *)
(*  - Date.now() in the stored file name stays symbolic ("<now>").         *)
(***************************************************************************)
EXTENDS Integers, Sequences, FiniteSets, TLC

VARIABLES openai, pc, req, locals, sent,
          sitesFile, workersFile, usersFile, companyFile, wpc, wlocals,
          returned, upc, ulocals

vars == <<openai, pc, req, locals, sent,
          sitesFile, workersFile, usersFile, companyFile, wpc, wlocals,
          returned, upc, ulocals>>

docsVars == <<pc, req, locals, sent>>
stores == <<sitesFile, workersFile, usersFile, companyFile>>
\* POST /api/workers in flight; the workers answered with success so far
workerVars == <<wpc, wlocals, returned>>
\* POST and DELETE /api/sites/:id/users in flight
siteUserVars == <<upc, ulocals>>

-----------------------------------------------------------------------------
(* Bounds *)

\* concurrent POST /api/workers/:id/docs requests
MaxReqs == 2
\* keys in an object the LLM replies with (generated replies)
MaxKeys == 2
\* workers the workers file holds at most
MaxWorkers == 1

\* concurrent POST /api/workers requests
MaxWReqs == 2
\* concurrent POST or DELETE /api/sites/:id/users requests
MaxUReqs == 2

Reqs == 1 .. MaxReqs
WReqs == 1 .. MaxWReqs
UReqs == 1 .. MaxUReqs

-----------------------------------------------------------------------------
(* JSON values *)

JNull == [t |-> "null"]
JUndefined == [t |-> "undefined"]
JBool(b) == [t |-> "bool", b |-> b]
JNum(n) == [t |-> "num", n |-> n]
JStr(s) == [t |-> "str", s |-> s]
JArr(a) == [t |-> "arr", a |-> a]
JObj(f) == [t |-> "obj", o |-> f]

\* `{}`
EmptyObject == JObj(<<>>)

\* the literal 0.7 of `let confidence = 0.7` and `?? 0.7`, in tenths
DefaultConfidence == 7

-----------------------------------------------------------------------------
(* Lexical tokens of a reply text *)

P(c) == [k |-> "punct", s |-> c]
Lit(w) == [k |-> "lit", s |-> w]
NumT(n) == [k |-> "num", n |-> n]
StrT(s) == [k |-> "str", s |-> s]
\* anything that is no JSON token: prose, a markdown fence
Junk == [k |-> "junk", s |-> "prose"]

IsP(tok, c) == tok.k = "punct" /\ tok.s = c

TokAt(toks, i) == IF i <= Len(toks) THEN toks[i] ELSE [k |-> "eof", s |-> ""]

LitVal(w) ==
  CASE w = "null" -> JNull
    [] w = "true" -> JBool(TRUE)
    [] OTHER -> JBool(FALSE)

(* JSON.parse: a recursive-descent parse of the whole text.  A result is    *)
(* [ok |-> TRUE, val, next] or [ok |-> FALSE] (a SyntaxError).              *)
ParseFail == [ok |-> FALSE]
ParseOk(v, n) == [ok |-> TRUE, val |-> v, next |-> n]

RECURSIVE ParseValue(_, _), ParseElements(_, _, _), ParseMembers(_, _, _)

ParseValue(toks, i) ==
  LET tok == TokAt(toks, i) IN
  CASE tok.k = "lit" -> ParseOk(LitVal(tok.s), i + 1)
    [] tok.k = "num" -> ParseOk(JNum(tok.n), i + 1)
    [] tok.k = "str" -> ParseOk(JStr(tok.s), i + 1)
    [] IsP(tok, "[") ->
         IF IsP(TokAt(toks, i + 1), "]")
         THEN ParseOk(JArr(<<>>), i + 2)
         ELSE ParseElements(toks, i + 1, <<>>)
    [] IsP(tok, "{") ->
         IF IsP(TokAt(toks, i + 1), "}")
         THEN ParseOk(EmptyObject, i + 2)
         ELSE ParseMembers(toks, i + 1, <<>>)
    [] OTHER -> ParseFail

ParseElements(toks, i, acc) ==
  LET e == ParseValue(toks, i) IN
  IF ~e.ok THEN ParseFail
  ELSE LET sep == TokAt(toks, e.next) IN
       IF IsP(sep, ",") THEN ParseElements(toks, e.next + 1, Append(acc, e.val))
       ELSE IF IsP(sep, "]") THEN ParseOk(JArr(Append(acc, e.val)), e.next + 1)
       ELSE ParseFail

\* a repeated key keeps its last value
ParseMembers(toks, i, acc) ==
  LET key == TokAt(toks, i) IN
  IF key.k # "str" \/ ~IsP(TokAt(toks, i + 1), ":") THEN ParseFail
  ELSE LET m == ParseValue(toks, i + 2) IN
       IF ~m.ok THEN ParseFail
       ELSE LET obj == (key.s :> m.val) @@ acc
                sep == TokAt(toks, m.next) IN
            IF IsP(sep, ",") THEN ParseMembers(toks, m.next + 1, obj)
            ELSE IF IsP(sep, "}") THEN ParseOk(JObj(obj), m.next + 1)
            ELSE ParseFail

JSONParse(txt) ==
  LET r == ParseValue(txt, 1) IN
  IF r.ok /\ r.next = Len(txt) + 1 THEN [ok |-> TRUE, val |-> r.val] ELSE ParseFail

-----------------------------------------------------------------------------
(* JavaScript operators the handler uses *)

\* v.key: a TypeError on null, undefined where v has no such own key
CanRead(v) == v.t \notin {"null", "undefined"}
GetProp(v, key) ==
  IF v.t = "obj" /\ key \in DOMAIN v.o THEN v.o[key] ELSE JUndefined

\* a ?? b
Nullish(a, b) == IF a.t \in {"null", "undefined"} THEN b ELSE a

-----------------------------------------------------------------------------
(* Uploaded files: req.file as multer leaves it *)

OriginalNames ==
  { <<"visita", " ", "medica.pdf">>,
    <<"corso_", "2024-03-15", ".pdf">>,
    <<"att_", "2024-03-15", "_", "2026-03-15", ".pdf">> }

\* file.originalname.replace(/\s+/g, "_")
RECURSIVE Safe(_)
Safe(name) ==
  IF name = <<>> THEN <<>>
  ELSE LET rest == Safe(Tail(name)) IN
       IF Head(name) # " " THEN <<Head(name)>> \o rest
       ELSE IF Len(name) > 1 /\ name[2] = " " THEN rest
       ELSE <<"_">> \o rest

\* `${Date.now()}_${safe}`
StoredName(name) == <<"<now>", "_">> \o Safe(name)

Upload(name) ==
  [present |-> TRUE, originalname |-> name, filename |-> StoredName(name)]
NoFile == [present |-> FALSE, originalname |-> <<>>, filename |-> <<>>]

Uploads == {Upload(n) : n \in OriginalNames}

-----------------------------------------------------------------------------
(* What openai.chat.completions.create may settle with *)

Keys == {"doc_type", "holder_name", "cf", "issue_date", "expiry_date",
         "confidence_overall"}
KeyOrder == <<"doc_type", "holder_name", "cf", "issue_date", "expiry_date",
              "confidence_overall">>

\* the values of doc_type the prompt lists
DocTypes == {"visita_medica", "formazione_generale", "formazione_specifica",
             "alto_rischio", "antincendio", "primo_soccorso", "dpi",
             "tesserino", "preposto", "rls", "altro"}

KeyVals(k) ==
  CASE k = "doc_type" -> {JStr("visita_medica"), JStr("passaporto"), JNull}
    [] k = "holder_name" -> {JStr("Mario Rossi")}
    [] k = "cf" -> {JStr("RSSMRA80A01H501U")}
    [] k = "issue_date" -> {JStr("2020-01-10"), JNull}
    [] k = "expiry_date" -> {JStr("2030-01-10"), JNull}
    [] OTHER -> {JNum(9), JNum(-2), JNum(15), JStr("high"), JNull}

ScalarTok(v) ==
  CASE v.t = "null" -> Lit("null")
    [] v.t = "num" -> NumT(v.n)
    [] OTHER -> StrT(v.s)

\* the text of an object, its members in the prompt's order
RECURSIVE MemberToks(_, _)
MemberToks(f, i) ==
  IF i > Len(KeyOrder) THEN <<>>
  ELSE LET k == KeyOrder[i]
           rest == MemberToks(f, i + 1) IN
       IF k \notin DOMAIN f THEN rest
       ELSE <<StrT(k), P(":"), ScalarTok(f[k])>>
              \o (IF rest = <<>> THEN <<>> ELSE <<P(",")>> \o rest)
ObjectText(f) == <<P("{")>> \o MemberToks(f, 1) \o <<P("}")>>

GeneratedObjects ==
  UNION { {f \in [ks -> UNION {KeyVals(k) : k \in ks}] :
             \A k \in ks : f[k] \in KeyVals(k)} :
          ks \in {s \in SUBSET Keys : Cardinality(s) <= MaxKeys} }

FullObject ==
  [doc_type |-> JStr("visita_medica"), holder_name |-> JStr("Mario Rossi"),
   cf |-> JNull, issue_date |-> JStr("2020-01-10"),
   expiry_date |-> JStr("2030-01-10"), confidence_overall |-> JNum(9)]

\* every key present, doc_type outside the list, a score above 1
FullObjectOffList ==
  [FullObject EXCEPT !.doc_type = JStr("passaporto"),
                     !.confidence_overall = JNum(15)]

ReplyTexts ==
  {ObjectText(f) : f \in GeneratedObjects \cup {FullObject, FullObjectOffList}}
  \cup { <<>>,
         <<Junk>>,
         <<Junk, P("{"), P("}"), Junk>>,
         <<P("{"), StrT("doc_type"), P(":"), StrT("dpi")>>,
         <<P("{"), StrT("doc_type"), P(":"), StrT("dpi"), P(","), P("}")>>,
         <<P("{"), StrT("issue_date"), P(":"), StrT("2020-01-10"), P(","),
           StrT("issue_date"), P(":"), Lit("null"), P("}")>>,
         <<Lit("null")>>,
         <<Lit("true")>>,
         <<NumT(5)>>,
         <<StrT("altro")>>,
         <<P("["), P("]")>>,
         <<P("["), NumT(9), P(","), StrT("dpi"), P("]")>> }

Rejects == [kind |-> "rejects", hasContent |-> FALSE, content |-> <<>>]
Resolves(has, txt) == [kind |-> "resolves", hasContent |-> has, content |-> txt]
NotCalled == [kind |-> "not_called", hasContent |-> FALSE, content |-> <<>>]

\* a rejection, a reply without choices[0].message.content, a reply with a text
Outcomes ==
  {Rejects, Resolves(FALSE, <<>>)} \cup {Resolves(TRUE, t) : t \in ReplyTexts}

-----------------------------------------------------------------------------
(* The handler of POST /api/workers/:id/docs *)

\* `OCR from: ${req.file.originalname}`
OcrText(file) == <<"OCR from: ">> \o file.originalname

NoFrame ==
  [live |-> FALSE, ocrText |-> <<>>, extracted |-> JUndefined,
   confidence |-> JUndefined]

\* const ocrText; let extracted = {}; let confidence = 0.7
InitialFrame(file) ==
  [live |-> TRUE, ocrText |-> OcrText(file), extracted |-> EmptyObject,
   confidence |-> JNum(DefaultConfidence)]

\* (mutation) extracted and confidence hoisted to module scope
SlotShared(r) == 1

\* the bindings of one invocation are its own
Slot(r) == r

\* out.choices?.[0]?.message?.content || "{}"
ContentOrDefault(out) ==
  IF out.hasContent /\ out.content # <<>> THEN out.content
  ELSE <<P("{"), P("}")>>

(* The statements inside the inner try, after the awaited call settled with *)
(* `out`: the completion names what was thrown ("" for nothing) and the     *)
(* bindings as the statements left them.                                    *)
TryBody(fr, out) ==
  IF out.kind = "rejects" THEN [thrown |-> "APIError", frame |-> fr]
  ELSE LET p == JSONParse(ContentOrDefault(out)) IN
       IF ~p.ok THEN [thrown |-> "SyntaxError", frame |-> fr]
       ELSE LET fr1 == [fr EXCEPT !.extracted = p.val] IN
            IF ~CanRead(p.val) THEN [thrown |-> "TypeError", frame |-> fr1]
            ELSE [thrown |-> "",
                  frame |-> [fr1 EXCEPT !.confidence =
                               Nullish(GetProp(p.val, "confidence_overall"),
                                       JNum(DefaultConfidence))]]

\* (mutation) a catch that handles the parse error alone and rethrows the rest
CatchSyntaxErrorOnly(c) ==
  IF c.thrown # "SyntaxError" THEN c
  ELSE [thrown |-> "", frame |-> [c.frame EXCEPT !.extracted = EmptyObject]]

\* catch { extracted = {}; }
Catch(c) ==
  IF c.thrown = "" THEN c
  ELSE [thrown |-> "", frame |-> [c.frame EXCEPT !.extracted = EmptyObject]]

Response400 ==
  [status |-> 400, body |-> [ok |-> FALSE, error |-> "file missing"]]
Response500(e) == [status |-> 500, body |-> [ok |-> FALSE, error |-> e]]

(* Date tokens of a text, DD/MM/YYYY or YYYY-MM-DD, as ISO dates in order   *)
(* of appearance ("" for a word that is no date).                           *)
DateValue(w) ==
  CASE w \in {"2024-03-15", "2026-03-15"} -> w
    [] w = "15/03/2024" -> "2024-03-15"
    [] w = "15/03/2026" -> "2026-03-15"
    [] OTHER -> ""

RECURSIVE DateTokens(_)
DateTokens(text) ==
  IF text = <<>> THEN <<>>
  ELSE LET d == DateValue(Head(text)) IN
       (IF d = "" THEN <<>> ELSE <<d>>) \o DateTokens(Tail(text))

\* the first date token, and the first one after it that differs from it
FirstDate(text) ==
  LET ds == DateTokens(text) IN IF ds = <<>> THEN JNull ELSE JStr(ds[1])
SecondDate(text) ==
  LET ds == DateTokens(text)
      others == SelectSeq(ds, LAMBDA d : d # ds[1]) IN
  IF ds = <<>> \/ others = <<>> THEN JNull ELSE JStr(others[1])

\* obj with key set to val
SetProp(obj, key, val) ==
  IF obj.t # "obj" THEN obj ELSE JObj((key :> val) @@ obj.o)

\* (mutation) a date backfill that writes over what the extractor returned
ResponseOkDatesFromText(file, fr) ==
  LET first == FirstDate(fr.ocrText)
      second == SecondDate(fr.ocrText)
      e1 == IF first = JNull THEN fr.extracted
            ELSE SetProp(fr.extracted, "issue_date", first)
      e2 == IF second = JNull THEN e1 ELSE SetProp(e1, "expiry_date", second) IN
  [status |-> 200,
   body |-> [ok |-> TRUE,
             file |-> <<"/uploads/">> \o file.filename,
             url |-> <<"<protocol>://<host>/uploads/">> \o file.filename,
             ocr |-> fr.ocrText,
             extracted |-> e2,
             confidence |-> fr.confidence]]

\* res.json({ ok: true, file, url, ocr, extracted, confidence })
ResponseOk(file, fr) ==
  [status |-> 200,
   body |-> [ok |-> TRUE,
             file |-> <<"/uploads/">> \o file.filename,
             url |-> <<"<protocol>://<host>/uploads/">> \o file.filename,
             ocr |-> fr.ocrText,
             extracted |-> fr.extracted,
             confidence |-> fr.confidence]]

\* what leaves the inner try either reaches res.json or the outer catch
Respond(file, c) ==
  IF c.thrown = "" THEN ResponseOk(file, c.frame) ELSE Response500(c.thrown)

(* The response the running callback has handed to its socket.  A callback *)
(* runs once the previous one's response has been flushed (Flush).          *)
Sent(route, file, out, resp) ==
  [route |-> route, file |-> file, llm |-> out, resp |-> resp]
NothingSent == Sent("", NoFile, NotCalled, [status |-> 0])

(* The request arrives.  Without a file the handler answers 400; without an *)
(* LLM client it runs to res.json in one go; otherwise it suspends on the   *)
(* awaited call.                                                            *)
DocsStart(r) ==
  /\ sent = NothingSent
  /\ pc[r] = "idle"
  /\ \E file \in Uploads \cup {NoFile} :
       IF ~file.present
       THEN /\ sent' = Sent("docs", file, NotCalled, Response400)
            /\ UNCHANGED <<pc, req, locals>>
       ELSE IF ~openai
       THEN /\ sent' = Sent("docs", file, NotCalled,
                            Respond(file, [thrown |-> "",
                                           frame |-> InitialFrame(file)]))
            /\ UNCHANGED <<pc, req, locals>>
       ELSE /\ locals' = [locals EXCEPT ![Slot(r)] = InitialFrame(file)]
            /\ req' = [req EXCEPT ![r] = file]
            /\ pc' = [pc EXCEPT ![r] = "await"]
            /\ UNCHANGED sent
  /\ UNCHANGED <<openai, stores, workerVars, siteUserVars>>

\* the awaited call settles; the handler runs to the end
DocsSettle(r) ==
  /\ sent = NothingSent
  /\ pc[r] = "await"
  /\ \E out \in Outcomes :
       LET c == Catch(TryBody(locals[Slot(r)], out)) IN
       /\ sent' = Sent("docs", req[r], out, Respond(req[r], c))
       /\ locals' = [locals EXCEPT ![Slot(r)] = NoFrame]
  /\ req' = [req EXCEPT ![r] = NoFile]
  /\ pc' = [pc EXCEPT ![r] = "idle"]
  /\ UNCHANGED <<openai, stores, workerVars, siteUserVars>>

\* the response has left the process
Flush ==
  /\ sent # NothingSent
  /\ sent' = NothingSent
  /\ UNCHANGED <<openai, pc, req, locals, stores, workerVars, siteUserVars>>

-----------------------------------------------------------------------------
(* POST /api/workers *)

NanoIds == {"DIP-A", "DIP-B"}
Bodies == { [name |-> "Mario Rossi", cf |-> "RSSMRA80A01H501U"],
            [name |-> "Mario Rossi", cf |-> ""] }

NoWorkerFrame == [workers |-> <<>>, body |-> [name |-> "", cf |-> ""]]

\* { id, name, cf, role: role || "Operaio", docs: {} }
Worker(id, body) ==
  [id |-> id, name |-> body.name, cf |-> body.cf, role |-> "Operaio",
   docs |-> EmptyObject]

\* validation: 400, or the handler suspends on readJson
PostWorkerStart(w) ==
  /\ sent = NothingSent
  /\ wpc[w] = "idle"
  /\ Len(workersFile) < MaxWorkers
  /\ \E body \in Bodies :
       IF body.name = "" \/ body.cf = ""
       THEN /\ sent' = Sent("workers", NoFile, NotCalled,
                            [status |-> 400,
                             body |-> [ok |-> FALSE, error |-> "name & cf required"]])
            /\ UNCHANGED <<wpc, wlocals>>
       ELSE /\ wpc' = [wpc EXCEPT ![w] = "reading"]
            /\ wlocals' = [wlocals EXCEPT ![w].body = body]
            /\ UNCHANGED sent
  /\ UNCHANGED <<openai, pc, req, locals, stores, returned, siteUserVars>>

\* readJson settles; the worker is pushed and writeJson stringifies the list
PostWorkerRead(w) ==
  /\ sent = NothingSent
  /\ wpc[w] = "reading"
  /\ \E id \in NanoIds :
       wlocals' = [wlocals EXCEPT ![w].workers =
                     Append(workersFile, Worker(id, wlocals[w].body))]
  /\ wpc' = [wpc EXCEPT ![w] = "writing"]
  /\ UNCHANGED <<openai, docsVars, stores, returned, siteUserVars>>

\* fsp.writeFile settles: the whole file is replaced; the worker is answered
PostWorkerWrite(w) ==
  LET worker == wlocals[w].workers[Len(wlocals[w].workers)] IN
  /\ sent = NothingSent
  /\ wpc[w] = "writing"
  /\ workersFile' = wlocals[w].workers
  /\ sent' = Sent("workers", NoFile, NotCalled, [status |-> 200, body |-> worker])
  /\ returned' = returned \cup {worker}
  /\ wlocals' = [wlocals EXCEPT ![w] = NoWorkerFrame]
  /\ wpc' = [wpc EXCEPT ![w] = "idle"]
  /\ UNCHANGED <<openai, pc, req, locals, sitesFile, usersFile, companyFile,
                 siteUserVars>>

-----------------------------------------------------------------------------

(* Site users: POST /api/sites/:id/users, DELETE /api/sites/:id/users/:uid *)

\* roles of a site that may perform each action
PERM ==
  [VIEW_PSC |-> {"owner", "coordinator", "contractor", "subcontractor",
                 "supervisor", "admin"},
   EDIT_PSC |-> {"coordinator", "admin"},
   UPLOAD_POS |-> {"contractor", "subcontractor", "supervisor", "admin"},
   APPROVE_DOCS |-> {"owner", "coordinator", "supervisor", "admin"},
   VIEW_MINUTES |-> {"owner", "coordinator", "contractor", "subcontractor",
                     "supervisor", "admin"},
   MANAGE_SITE_USERS |-> {"owner", "coordinator", "admin"},
   VIEW_DVR |-> {"owner", "coordinator", "contractor", "subcontractor",
                 "supervisor", "admin"},
   UPLOAD_SAL |-> {"owner", "contractor", "supervisor", "admin"},
   VIEW_SCHEDULE |-> {"owner", "coordinator", "contractor", "subcontractor",
                      "supervisor", "admin"},
   UPLOAD_INSPECTION_PHOTOS |-> {"coordinator", "contractor", "subcontractor",
                                 "supervisor", "admin"},
   VIEW_TRAINING |-> {"owner", "coordinator", "contractor", "subcontractor",
                      "supervisor", "admin"},
   DOWNLOAD_REPORTS |-> {"owner", "coordinator", "contractor", "supervisor",
                         "admin"}]

\* x-user-id of the requests
Users == {"USR-1", "USR-2", "USR-3"}
\* :id of the requests; CNT-9 names no site
RequestSiteIds == {"CNT-1", "CNT-2", "CNT-9"}

Role(user, role) == [user_id |-> user, role |-> role]
Site(id, roles) == [id |-> id, roles |-> roles]

\* sites.json as two POST /api/sites and one POST .../users have left it
SeedSites ==
  << Site("CNT-1", <<Role("USR-1", "owner")>>),
     Site("CNT-2", <<Role("USR-2", "owner"), Role("USR-1", "contractor")>>) >>

\* the requests' method with :user_id or the body { user_id, role }
SiteUserOps ==
  { [method |-> "POST", user_id |-> "USR-3", role |-> r] :
      r \in {"coordinator", "contractor"} }
  \cup { [method |-> "DELETE", user_id |-> "USR-3", role |-> ""] }
NoOp == [method |-> "", user_id |-> "", role |-> ""]

\* sites.findIndex(s => s.id === id), 0 for -1
SiteIndex(sites, id) ==
  LET hits == {i \in 1 .. Len(sites) : sites[i].id = id} IN
  IF hits = {} THEN 0 ELSE CHOOSE i \in hits : \A j \in hits : i <= j

\* roles.findIndex(r => r.user_id === user), 0 for -1
RoleIndex(roles, user) ==
  LET hits == {i \in 1 .. Len(roles) : roles[i].user_id = user} IN
  IF hits = {} THEN 0 ELSE CHOOSE i \in hits : \A j \in hits : i <= j

\* entry?.role of the user in the site; "" where there is no site or entry
HeldRole(sites, user, id) ==
  LET i == SiteIndex(sites, id) IN
  IF i = 0 THEN ""
  ELSE LET j == RoleIndex(sites[i].roles, user) IN
       IF j = 0 THEN "" ELSE sites[i].roles[j].role

\* req.can(action, siteId), given what readJson(SITES_FILE) returned
Can(user, action, id, sites) ==
  IF id = "" THEN TRUE
  ELSE IF SiteIndex(sites, id) = 0 THEN FALSE
  ELSE LET role == HeldRole(sites, user, id) IN
       IF role = "" THEN FALSE
       ELSE (action \in DOMAIN PERM /\ role \in PERM[action]) \/ role = "admin"

\* the roles of the site after the handler changed them
ApplyOp(roles, op) ==
  IF op.method = "DELETE"
  THEN SelectSeq(roles, LAMBDA r : r.user_id # op.user_id)
  ELSE LET i == RoleIndex(roles, op.user_id) IN
       IF i > 0 THEN [roles EXCEPT ![i].role = op.role]
       ELSE Append(roles, Role(op.user_id, op.role))

NoSiteUserFrame ==
  [user |-> "", site |-> "", op |-> NoOp, checked |-> "", data |-> <<>>]

\* a response of the site users routes, with the request it answers
SentSiteUser(user, id, status, body) ==
  [route |-> "site_users", file |-> NoFile, llm |-> NotCalled,
   resp |-> [status |-> status, body |-> body],
   request |-> [user |-> user, site |-> id]]

(* readJson inside req.can settles: 403, or the handler goes on to its own *)
(* readJson.  `checked` keeps the role the check found.                     *)
SiteUserCheck(u) ==
  /\ sent = NothingSent
  /\ upc[u] = "idle"
  /\ \E user \in Users, id \in RequestSiteIds, op \in SiteUserOps :
       IF ~Can(user, "MANAGE_SITE_USERS", id, sitesFile)
       THEN /\ sent' = SentSiteUser(user, id, 403,
                                    [ok |-> FALSE, error |-> "Forbidden"])
            /\ UNCHANGED <<upc, ulocals>>
       ELSE /\ upc' = [upc EXCEPT ![u] = "reading"]
            /\ ulocals' = [ulocals EXCEPT ![u] =
                             [user |-> user, site |-> id, op |-> op,
                              checked |-> HeldRole(sitesFile, user, id),
                              data |-> <<>>]]
            /\ UNCHANGED sent
  /\ UNCHANGED <<openai, pc, req, locals, stores, workerVars>>

(* The handler's readJson settles: 404, or the site's roles are changed in  *)
(* the list just read and writeJson stringifies the whole list.             *)
SiteUserRead(u) ==
  LET i == SiteIndex(sitesFile, ulocals[u].site) IN
  /\ sent = NothingSent
  /\ upc[u] = "reading"
  /\ IF i = 0
     THEN /\ sent' = SentSiteUser(ulocals[u].user, ulocals[u].site, 404,
                                  [ok |-> FALSE, error |-> "not found"])
          /\ upc' = [upc EXCEPT ![u] = "idle"]
          /\ ulocals' = [ulocals EXCEPT ![u] = NoSiteUserFrame]
     ELSE /\ ulocals' = [ulocals EXCEPT ![u].data =
                           [sitesFile EXCEPT ![i].roles =
                              ApplyOp(sitesFile[i].roles, ulocals[u].op)]]
          /\ upc' = [upc EXCEPT ![u] = "writing"]
          /\ UNCHANGED sent
  /\ UNCHANGED <<openai, pc, req, locals, stores, workerVars>>

\* fsp.writeFile settles: the whole file is replaced; the roles are answered
SiteUserWrite(u) ==
  LET i == SiteIndex(ulocals[u].data, ulocals[u].site) IN
  /\ sent = NothingSent
  /\ upc[u] = "writing"
  /\ sitesFile' = ulocals[u].data
  /\ sent' = SentSiteUser(ulocals[u].user, ulocals[u].site, 200,
                          [ok |-> TRUE, roles |-> ulocals[u].data[i].roles])
  /\ upc' = [upc EXCEPT ![u] = "idle"]
  /\ ulocals' = [ulocals EXCEPT ![u] = NoSiteUserFrame]
  /\ UNCHANGED <<openai, pc, req, locals, workersFile, usersFile, companyFile,
                 workerVars>>

-----------------------------------------------------------------------------


Init ==
  /\ openai \in BOOLEAN
  /\ pc = [r \in Reqs |-> "idle"]
  /\ req = [r \in Reqs |-> NoFile]
  /\ locals = [r \in Reqs |-> NoFrame]
  /\ sent = NothingSent
  /\ sitesFile = <<>>
  /\ workersFile = <<>>
  /\ usersFile = <<>>
  /\ companyFile = EmptyObject
  /\ wpc = [w \in WReqs |-> "idle"]
  /\ wlocals = [w \in WReqs |-> NoWorkerFrame]
  /\ returned = {}
  /\ upc = [u \in UReqs |-> "idle"]
  /\ ulocals = [u \in UReqs |-> NoSiteUserFrame]

\* the docs route, beside one creation of a worker
Next ==
  \/ \E r \in Reqs : DocsStart(r)
  \/ \E r \in Reqs : DocsSettle(r)
  \/ Flush
  \/ PostWorkerStart(1)
  \/ PostWorkerRead(1)
  \/ PostWorkerWrite(1)

Spec == Init /\ [][Next]_vars

\* concurrent creations of workers
NextWorkers ==
  \/ \E w \in WReqs : PostWorkerStart(w)
  \/ \E w \in WReqs : PostWorkerRead(w)
  \/ \E w \in WReqs : PostWorkerWrite(w)
  \/ Flush

SpecWorkers == Init /\ [][NextWorkers]_vars

\* the process starts on a sites.json that holds two sites
InitSites ==
  /\ openai \in BOOLEAN
  /\ pc = [r \in Reqs |-> "idle"]
  /\ req = [r \in Reqs |-> NoFile]
  /\ locals = [r \in Reqs |-> NoFrame]
  /\ sent = NothingSent
  /\ sitesFile = SeedSites
  /\ workersFile = <<>>
  /\ usersFile = <<>>
  /\ companyFile = EmptyObject
  /\ wpc = [w \in WReqs |-> "idle"]
  /\ wlocals = [w \in WReqs |-> NoWorkerFrame]
  /\ returned = {}
  /\ upc = [u \in UReqs |-> "idle"]
  /\ ulocals = [u \in UReqs |-> NoSiteUserFrame]

\* concurrent changes of the sites' users
NextSites ==
  \/ \E u \in UReqs : SiteUserCheck(u)
  \/ \E u \in UReqs : SiteUserRead(u)
  \/ \E u \in UReqs : SiteUserWrite(u)
  \/ Flush

SpecSites == InitSites /\ [][NextSites]_vars

-----------------------------------------------------------------------------
(* Vocabulary of the properties *)

\* a docs request that carried a file has just been answered
DocsAnswered == sent.route = "docs" /\ sent.file.present
DocsOk == DocsAnswered /\ sent.resp.status = 200

\* the returned record's field, undefined where it has none
ResultField(key) == GetProp(sent.resp.body.extracted, key)
Absent(v) == v.t \in {"null", "undefined"}

\* the LLM was called and replied; what its reply parses to
Replied == sent.llm.kind = "resolves"
ReplyParse == JSONParse(ContentOrDefault(sent.llm))
\* the reply carried a text of its own
RepliedText == Replied /\ sent.llm.hasContent /\ sent.llm.content # <<>>
RepliedObject == Replied /\ ReplyParse.ok /\ ReplyParse.val.t = "obj"
SchemaComplete(v) == v.t = "obj" /\ Keys \subseteq DOMAIN v.o
\* not configured, the call threw, or the reply is no JSON
ExtractorFailed == ~Replied \/ ~ReplyParse.ok

InUnitRange(c) == c.t = "num" /\ 0 <= c.n /\ c.n <= 10

\* the response names, beside the result, that the OCR text is a stub
StubFlags == {"isStub", "is_stub", "stub", "ocr_stub"}
CarriesStubFlag(body) == \E k \in StubFlags : k \in DOMAIN body

-----------------------------------------------------------------------------
(* C1: with OCR a stub and no LLM client configured, a docs request with a  *)
(* file is answered ok with confidence = 0 and docType = "altro".           *)
C1_DegradedResult ==
  (DocsAnswered /\ ~openai) =>
    /\ sent.resp.status = 200
    /\ sent.resp.body.confidence = JNum(0)
    /\ ResultField("doc_type") = JStr("altro")

(* C2: a docs request with a file always ends in the success response with  *)
(* a result value, never in the 500 response, whatever the LLM call did.    *)
C2_NeverFails ==
  DocsAnswered =>
    /\ sent.resp.status = 200
    /\ sent.resp.body.ok
    /\ ~Absent(sent.resp.body.extracted)

\* the reply was the JSON text null, whose property read throws
C2_Witness ==
  /\ DocsOk
  /\ sent.llm = Resolves(TRUE, <<Lit("null")>>)
  /\ sent.resp.body.extracted = EmptyObject

(* C3: every returned confidence is a number in [0, 1].                     *)
C3_ConfidenceInRange == DocsOk => InUnitRange(sent.resp.body.confidence)

(* C4: after a successful structured extraction the returned docType is one *)
(* of the eleven listed values; anything else is coerced to "altro".        *)
C4_DocTypeInList ==
  (DocsOk /\ Replied /\ ReplyParse.ok /\ SchemaComplete(ReplyParse.val)) =>
    LET d == ResultField("doc_type") IN d.t = "str" /\ d.s \in DocTypes

(* C5: a reply that is no JSON, or JSON without the schema's keys, counts   *)
(* as a failed extraction: no field of the reply is returned and the        *)
(* confidence is 0.                                                         *)
C5_MalformedIsFailure ==
  (DocsOk /\ RepliedText /\ (ReplyParse.ok => ~SchemaComplete(ReplyParse.val))) =>
    /\ sent.resp.body.confidence = JNum(0)
    /\ sent.resp.body.extracted.t = "obj"
    /\ \A k \in Keys : Absent(ResultField(k))

(* C6: when the extractor failed or is not configured and the raw text has  *)
(* two distinct date tokens, issueDate is the first and expiryDate the      *)
(* second, with confidence 0; with fewer tokens the unfilled slot is null.  *)
C6_DateBackfill ==
  (DocsOk /\ ExtractorFailed) =>
    LET first == FirstDate(sent.resp.body.ocr)
        second == SecondDate(sent.resp.body.ocr) IN
    IF second # JNull
    THEN /\ ResultField("issue_date") = first
         /\ ResultField("expiry_date") = second
         /\ sent.resp.body.confidence = JNum(0)
    ELSE /\ first = JNull => Absent(ResultField("issue_date"))
         /\ Absent(ResultField("expiry_date"))

(* C7: an issueDate (expiryDate) the extractor returned non-null is         *)
(* returned as it is, whatever date tokens the raw text holds.              *)
C7_ExtractorDatesKept ==
  (DocsOk /\ RepliedObject) =>
    \A k \in {"issue_date", "expiry_date"} :
      ~Absent(GetProp(ReplyParse.val, k)) =>
        ResultField(k) = GetProp(ReplyParse.val, k)

\* the extractor's dates differ from the two date tokens of the raw text
C7_Witness ==
  /\ DocsOk /\ RepliedObject
  /\ GetProp(ReplyParse.val, "issue_date") = JStr("2020-01-10")
  /\ GetProp(ReplyParse.val, "expiry_date") = JStr("2030-01-10")
  /\ FirstDate(sent.resp.body.ocr) = JStr("2024-03-15")
  /\ SecondDate(sent.resp.body.ocr) = JStr("2026-03-15")
  /\ ResultField("issue_date") = JStr("2020-01-10")

(* C8: after a successful extraction the confidence is confidence_overall   *)
(* when that is a number in [0, 1], and 0.7 in every other case.            *)
C8_ConfidencePolicy ==
  (DocsOk /\ RepliedObject) =>
    LET c == GetProp(ReplyParse.val, "confidence_overall") IN
    sent.resp.body.confidence =
      (IF InUnitRange(c) THEN c ELSE JNum(DefaultConfidence))

\* what the request is answered when it runs with no other request around
Isolated(file, out) ==
  IF out.kind = "not_called" THEN ResponseOk(file, InitialFrame(file))
  ELSE Respond(file, Catch(TryBody(InitialFrame(file), out)))

DocsStep == pc' # pc \/ sent'.route = "docs"

(* C9: a step of a docs request leaves the four stores as they are, and     *)
(* the answer to a docs request is the one it gets in isolation from its    *)
(* own file and its own LLM reply, whatever else is in flight.              *)
C9_StatelessIsolated ==
  [][DocsStep =>
       /\ stores' = stores
       /\ (sent'.route = "docs" /\ sent'.file.present) =>
            sent'.resp = Isolated(sent'.file, sent'.llm)]_vars

\* answered while another docs request with another file awaits its reply
\* and the workers store holds a worker
C9_Witness ==
  /\ DocsOk
  /\ Replied
  /\ workersFile # <<>>
  /\ \E r \in Reqs : pc[r] = "await" /\ req[r] # sent.file

(* C10: a response whose OCR text is a stub says so in a field of its own.  *)
(* The handler performs no OCR: every ocr text it returns is the stub.      *)
C10_StubFlagged == DocsOk => CarriesStubFlag(sent.resp.body)

-----------------------------------------------------------------------------
\* no POST /api/workers request is in flight
WorkersQuiet == \A w \in WReqs : wpc[w] = "idle"
InWorkersFile(x) == \E i \in 1 .. Len(workersFile) : workersFile[i] = x

(* C11: once all concurrent POST /api/workers requests have completed,      *)
(* every worker returned in a success response is in the workers store.     *)
C11_NoCreationLost == WorkersQuiet => \A x \in returned : InWorkersFile(x)

-----------------------------------------------------------------------------
\* the roles list of the site in the store, <<>> where there is no such site
RolesOf(sites, id) ==
  LET i == SiteIndex(sites, id) IN IF i = 0 THEN <<>> ELSE sites[i].roles

\* request u's write settles in this step
Writes(u) == upc[u] = "writing" /\ upc'[u] = "idle"

\* a site users request is answered by the permission check itself
AnsweredAtCheck ==
  sent' # sent /\ sent'.route = "site_users" /\ upc' = upc

(* C12: a site's roles list changes only in the write of a request for     *)
(* that site whose user held owner, coordinator or admin there when the    *)
(* check ran; a request of a user without such a role, or for a site that  *)
(* does not exist, is answered 403 and leaves the sites store unchanged.   *)
C12_RolesGuarded ==
  [][/\ \A id \in RequestSiteIds :
          RolesOf(sitesFile', id) # RolesOf(sitesFile, id) =>
            \E u \in UReqs :
              /\ Writes(u)
              /\ ulocals[u].site = id
              /\ ulocals[u].checked \in {"owner", "coordinator", "admin"}
     /\ (/\ AnsweredAtCheck
         /\ HeldRole(sitesFile, sent'.request.user, sent'.request.site)
              \notin {"owner", "coordinator", "admin"}) =>
          (sent'.resp.status = 403 /\ sitesFile' = sitesFile)]_vars

====
